---- MODULE Spec2Model ----
(***************************************************************************)
(* A model of amara.xpath.context (src/amara/xpath/__init__.py): the       *)
(* XPath evaluation context with its variable / namespace / function      *)
(* mappings and its stack of output writers, and of the comparison        *)
(* operators exercised by src/test/xpath/test_boolean_expr.py.            *)
(*                                                                         *)
(* Python objects that are mutable and can be aliased (dicts) live in a    *)
(* heap and are named by reference; Python values of varying type are      *)
(* tagged records [k |-> <type>, ...].                                     *)
(***************************************************************************)
EXTENDS Integers, Sequences, FiniteSets, TLC

VARIABLES
    heap,       \* the dict objects: heap[r] is the content of the dict with reference r
    ctxs,       \* the context objects constructed so far, in construction order
    saved,      \* the states copy() returned that callers still hold
    last,       \* the last call made on the model: operation, arguments, outcome
    _writers,   \* context._writers of the writing context: writer ids, bottom first
    bound,      \* what each construction operation of the context resolves to
    log,        \* the begin / end callbacks made by push_writer and pop_writer, in order
    writerClass,   \* the class of each writer object created so far ("" if not yet)
    hasCharacters, \* the writer classes whose objects have an attribute `characters`
    cmp         \* the comparison last evaluated: operands, operator, outcome

ctxVars == <<heap, ctxs, saved>>
wrVars  == <<_writers, bound, log, writerClass, hasCharacters>>
vars    == <<heap, ctxs, saved, last, _writers, bound, log, writerClass, hasCharacters,
             cmp>>

(***************************************************************************)
(* Bounds of the model.                                                    *)
(***************************************************************************)
MaxCtx == 2         \* context objects constructed in one behaviour
MaxWriters == 2     \* writer objects available to push
MaxLog == 4         \* push_writer and pop_writer calls in one behaviour
MaxSaved == 2       \* states returned by copy() held at one time

(***************************************************************************)
(* Python values.                                                          *)
(***************************************************************************)
None       == [k |-> "None"]
IntV(i)    == [k |-> "int", v |-> i]
NodeV(n)   == [k |-> "node", v |-> n]
CtxV(c)    == [k |-> "context", v |-> c]
DictV(d)   == [k |-> "dict", d |-> d]
StrV(s)    == [k |-> "str", s |-> s]
ModuleV(m) == [k |-> "module", name |-> m]

EmptyDict == [key \in {} |-> ""]

\* bool(x) as the `if x:` tests of __init__ apply it
truthy(x) ==
    CASE x.k = "None"   -> FALSE
      [] x.k = "int"    -> x.v # 0
      [] x.k = "dict"   -> DOMAIN x.d # {}
      [] x.k = "str"    -> x.s # ""
      [] OTHER          -> TRUE

\* d[key] = value
Put(d, key, value) ==
    [x \in DOMAIN d \cup {key} |-> IF x = key THEN value ELSE d[x]]

\* d.update(e) for a dict e: the entries of e are stored one after the other
RECURSIVE UpdateKeys(_, _, _)
UpdateKeys(d, e, keys) ==
    IF keys = {} THEN d
    ELSE LET key == CHOOSE x \in keys : TRUE
         IN  UpdateKeys(Put(d, key, e[key]), e, keys \ {key})

Update(d, e) == UpdateKeys(d, e, DOMAIN e)

(***************************************************************************)
(* Constants of the program.                                               *)
(***************************************************************************)
XML_NAMESPACE == "http://www.w3.org/XML/1998/namespace"

\* reference of the dict bound to the class attribute context.functions
\* (extensions.extension_functions, the table shared by all contexts)
functions == 1

\* the objects callable() accepts, among the values a registry may be given
Callables == {"builtin", "fnA", "fnB", "fnX", "fnY"}
NonCallables == {"notcallable"}
FunctionNames == {"f1", "f2"}

\* content of extensions.extension_functions when the class is created
extension_functions == [key \in {"f1"} |-> "builtin"]

(***************************************************************************)
(* Extension modules.  A module is known by its name; __import__ finds the *)
(* modules of Modules and raises ImportError for any other name.           *)
(***************************************************************************)
Modules == {"modA", "modB", "modBare", "modEmpty", "xml"}

\* getattr(module, 'extension_functions', None)
getattr_extension_functions(m) ==
    CASE m = "modA"     -> DictV([key \in {"f1", "f2"} |-> "fnA"])
      [] m = "modB"     -> DictV([key \in {"f2"} |-> "fnB"])
      [] m = "modEmpty" -> DictV(EmptyDict)
      [] OTHER          -> None

\* The loop over extmodules in __init__: fns is self.functions so far, mods
\* the items still to visit.  Yields the error raised, if any, and the dict.
RECURSIVE SearchModules(_, _)
SearchModules(fns, mods) ==
    IF mods = <<>> THEN [err |-> "ok", d |-> fns]
    ELSE LET module == Head(mods)
             name   == IF module.k = "module" THEN module.name ELSE module.s
             funcs  == getattr_extension_functions(name)
         IN  IF ~truthy(module) THEN SearchModules(fns, Tail(mods))
             ELSE IF module.k # "module" /\ name \notin Modules
                  THEN [err |-> "ImportError", d |-> fns]
             ELSE IF truthy(funcs)
                  THEN SearchModules(Update(fns, funcs.d), Tail(mods))
             ELSE SearchModules(fns, Tail(mods))

\* self.functions = self.functions.copy(): a new dict object holding the
\* entries of the class attribute.  Yields the heap and the new reference.
CopyFunctions_shared(h) == [heap |-> h, ref |-> functions]

CopyFunctions(h) == [heap |-> Append(h, h[functions]), ref |-> Len(h) + 1]

\* self.namespaces = {'xml': XML_NAMESPACE}, then the caller's bindings
InitNamespaces(namespaces) ==
    LET d == [key \in {"xml"} |-> XML_NAMESPACE]
    IN  IF truthy(namespaces) THEN Update(d, namespaces.d) ELSE d

\* InitFunctions with the directly given functions merged first, so that a
\* module's table overrides them
InitFunctions_modulesLast(base, extmodules, extfunctions) ==
    LET first == IF truthy(extfunctions) /\ extfunctions.k = "dict"
                 THEN Update(base, extfunctions.d) ELSE base
    IN  SearchModules(first, extmodules)

\* the merges into self.functions: the modules' tables, then extfunctions
InitFunctions(base, extmodules, extfunctions) ==
    LET searched == SearchModules(base, extmodules)
    IN  IF searched.err # "ok" THEN searched
        ELSE IF ~truthy(extfunctions) THEN searched
        ELSE IF extfunctions.k # "dict" THEN [err |-> "TypeError", d |-> searched.d]
        ELSE [err |-> "ok", d |-> Update(searched.d, extfunctions.d)]

\* context.__init__ on heap h: the exception raised ("ok" if none), the heap
\* afterwards and the fields of the new object.  An update() with an argument
\* that is not a mapping raises TypeError.
__init__(h, node, position, size, variables, namespaces, extmodules, extfunctions) ==
    LET failed(e) == [err |-> e, heap |-> h, self |-> None]
    IN  IF truthy(variables) /\ variables.k # "dict" THEN failed("TypeError")
        ELSE IF truthy(namespaces) /\ namespaces.k # "dict" THEN failed("TypeError")
        ELSE
        LET vs  == IF truthy(variables) THEN Update(EmptyDict, variables.d)
                   ELSE EmptyDict
            h1  == Append(h, vs)
            h2  == Append(h1, InitNamespaces(namespaces))
            cp  == CopyFunctions(h2)
            fns == InitFunctions(cp.heap[cp.ref], extmodules, extfunctions)
        IN  IF fns.err # "ok" THEN failed(fns.err)
            ELSE [err  |-> "ok",
                  heap |-> [cp.heap EXCEPT ![cp.ref] = fns.d],
                  self |-> [node |-> node, position |-> position, size |-> size,
                            variables |-> Len(h1), namespaces |-> Len(h2),
                            functions |-> cp.ref]]

(***************************************************************************)
(* The calls on contexts.                                                  *)
(***************************************************************************)
\* the dict a context's attribute refers to
variables(c)  == heap[ctxs[c].variables]
namespaces(c) == heap[ctxs[c].namespaces]
registry(c)   == heap[ctxs[c].functions]

\* context(node, position, size, variables, namespaces, extmodules, extfunctions)
new(node, position, size, vs, nss, extmodules, extfunctions) ==
    LET r == __init__(heap, node, position, size, vs, nss, extmodules, extfunctions)
    IN  /\ Len(ctxs) < MaxCtx
        /\ heap' = r.heap
        /\ ctxs' = IF r.err = "ok" THEN Append(ctxs, r.self) ELSE ctxs
        /\ last' = [op |-> "__init__", c |-> Len(ctxs) + 1, err |-> r.err,
                    node |-> node, position |-> position, size |-> size,
                    variables |-> vs, namespaces |-> nss,
                    extmodules |-> extmodules, extfunctions |-> extfunctions]
        /\ UNCHANGED <<saved, wrVars, cmp>>

\* the orders in which a dict with the keys S can be iterated
RECURSIVE Orders(_)
Orders(S) ==
    IF S = {} THEN {<<>>}
    ELSE UNION {{<<x>> \o o : o \in Orders(S \ {x})} : x \in S}

\* context.clone(): self.__class__(self, self.node, self.position, self.size,
\* self.variables, self.namespaces), the arguments bound by position to
\* (node, position, size, variables, namespaces, extmodules)
clone(c) ==
    LET self == ctxs[c]
    IN  \E order \in Orders(DOMAIN namespaces(c)) :
          LET extmodules == [i \in 1..Len(order) |-> StrV(order[i])]
              r == __init__(heap, CtxV(c), self.node, self.position, self.size,
                            DictV(variables(c)), extmodules, None)
          IN  /\ Len(ctxs) < MaxCtx
              /\ heap' = r.heap
              /\ ctxs' = IF r.err = "ok" THEN Append(ctxs, r.self) ELSE ctxs
              /\ last' = [op |-> "clone", c |-> c, err |-> r.err,
                          ret |-> IF r.err = "ok" THEN Len(ctxs) + 1 ELSE 0]
              /\ UNCHANGED <<saved, wrVars, cmp>>

\* addFunction without the callable() test
addFunction_unchecked(c, expandedName, function) ==
    /\ heap' = [heap EXCEPT ![ctxs[c].functions] = Put(@, expandedName, function)]
    /\ last' = [op |-> "addFunction", c |-> c, err |-> "ok",
                expandedName |-> expandedName, function |-> function]
    /\ UNCHANGED <<ctxs, saved, wrVars, cmp>>

\* context.addFunction(expandedName, function)
addFunction(c, expandedName, function) ==
    /\ IF function \notin Callables
       THEN /\ last' = [op |-> "addFunction", c |-> c, err |-> "TypeError",
                        expandedName |-> expandedName, function |-> function]
            /\ UNCHANGED heap
       ELSE /\ heap' = [heap EXCEPT ![ctxs[c].functions] =
                                        Put(@, expandedName, function)]
            /\ last' = [op |-> "addFunction", c |-> c, err |-> "ok",
                        expandedName |-> expandedName, function |-> function]
    /\ UNCHANGED <<ctxs, saved, wrVars, cmp>>


(***************************************************************************)
(* The writers.  A writer object is known by an id in Writers; 0 stands    *)
(* for the context itself, which is a writer too (class context(writer)).  *)
(* A bound method is the pair of the object and the attribute looked up.   *)
(* push_writer needs the nine callbacks of the writer interface on the     *)
(* object it is given; pop_writer also reads `characters`, which only some *)
(* writer classes have: an object of a class outside hasCharacters raises  *)
(* AttributeError there.                                                   *)
(***************************************************************************)
Writers == 1..MaxWriters

Ops == {"start_document", "end_document", "start_element", "end_element",
        "namespace", "attribute", "text", "characters", "comment",
        "processing_instruction"}

BoundMethod(w, attr) == [self |-> w, attr |-> attr]
Missing == [self |-> 0, attr |-> "AttributeError"]
Event(w, m) == [w |-> w, m |-> m]

\* the attributes of a context no writer was pushed on: the methods it
\* inherits from writer; it has no attribute `characters`
ClassAttributes == [o \in Ops |-> IF o = "characters" THEN Missing
                                  ELSE BoundMethod(0, o)]

\* the classes of the writers a caller hands to push_writer
CallerClasses == {"plainwriter", "characterswriter"}

\* the objects not created yet; a new object takes the first free id
Free == {w \in Writers : writerClass[w] = ""}
NewWriter == CHOOSE w \in Free : \A v \in Free : w <= v

\* push_writer with no begin callback
push_writer_silent(op, w, class) ==
    /\ _writers' = Append(_writers, w)
    /\ bound' = [bound EXCEPT
                   !["start_document"] = BoundMethod(w, "start_document"),
                   !["end_document"] = BoundMethod(w, "end_document"),
                   !["start_element"] = BoundMethod(w, "start_element"),
                   !["end_element"] = BoundMethod(w, "end_element"),
                   !["namespace"] = BoundMethod(w, "namespace"),
                   !["attribute"] = BoundMethod(w, "attribute"),
                   !["characters"] = BoundMethod(w, "text"),
                   !["text"] = BoundMethod(w, "text"),
                   !["comment"] = BoundMethod(w, "comment"),
                   !["processing_instruction"] =
                       BoundMethod(w, "processing_instruction")]
    /\ writerClass' = [writerClass EXCEPT ![w] = class]
    /\ last' = [op |-> op, w |-> w, err |-> "ok", events |-> <<>>]
    /\ UNCHANGED <<log, hasCharacters, ctxVars, cmp>>

\* context.push_writer(writer), also as called by push_tree_writer and
\* push_string_writer (op names the caller); class is the class of w
push_writer(op, w, class) ==
    /\ Len(log) < MaxLog
    /\ _writers' = Append(_writers, w)
    /\ bound' = [bound EXCEPT
                   !["start_document"] = BoundMethod(w, "start_document"),
                   !["end_document"] = BoundMethod(w, "end_document"),
                   !["start_element"] = BoundMethod(w, "start_element"),
                   !["end_element"] = BoundMethod(w, "end_element"),
                   !["namespace"] = BoundMethod(w, "namespace"),
                   !["attribute"] = BoundMethod(w, "attribute"),
                   !["characters"] = BoundMethod(w, "text"),
                   !["text"] = BoundMethod(w, "text"),
                   !["comment"] = BoundMethod(w, "comment"),
                   !["processing_instruction"] =
                       BoundMethod(w, "processing_instruction")]
    /\ log' = Append(log, Event(w, "start_document"))
    /\ writerClass' = [writerClass EXCEPT ![w] = class]
    /\ last' = [op |-> op, w |-> w, err |-> "ok",
                events |-> <<Event(w, "start_document")>>]
    /\ UNCHANGED <<hasCharacters, ctxVars, cmp>>

\* context.push_tree_writer(base_uri): a new treewriter object is pushed
push_tree_writer ==
    Free # {} /\ push_writer("push_tree_writer", NewWriter, "treewriter")

\* context.push_string_writer(errors): a new stringwriter object is pushed
push_string_writer ==
    Free # {} /\ push_writer("push_string_writer", NewWriter, "stringwriter")

\* pop_writer returning nothing, with no error, when no writer is left
pop_writer_tolerant(raises) ==
    /\ _writers = <<>>
    /\ last' = [op |-> "pop_writer", err |-> "ok", ret |-> 0, events |-> <<>>]
    /\ UNCHANGED <<wrVars, ctxVars, cmp>>

\* context.pop_writer(); raises tells whether the end_document of the
\* writer raises.  stack is self._writers as end_document finds it
pop_writer(raises) ==
    IF _writers = <<>>
    THEN \* self._writers[-1] raises IndexError
         /\ last' = [op |-> "pop_writer", err |-> "IndexError", ret |-> 0,
                     events |-> <<>>]
         /\ UNCHANGED <<wrVars, ctxVars, cmp>>
    ELSE
    LET writer == _writers[Len(_writers)]
        rest   == SubSeq(_writers, 1, Len(_writers) - 1)
        previous == rest[Len(rest)]
        \* the assignments made before self.characters = ... is reached
        upTo181 == [bound EXCEPT
                      !["start_document"] = BoundMethod(previous, "start_document"),
                      !["end_document"] = BoundMethod(previous, "end_document"),
                      !["start_element"] = BoundMethod(previous, "start_element"),
                      !["end_element"] = BoundMethod(previous, "end_element"),
                      !["namespace"] = BoundMethod(previous, "namespace"),
                      !["attribute"] = BoundMethod(previous, "attribute")]
        upTo184 == [upTo181 EXCEPT
                      !["characters"] = BoundMethod(previous, "characters"),
                      !["text"] = BoundMethod(previous, "characters"),
                      !["comment"] = BoundMethod(previous, "comment"),
                      !["processing_instruction"] =
                          BoundMethod(previous, "processing_instruction")]
    IN  /\ Len(log) < MaxLog
        /\ _writers' = rest
        /\ log' = Append(log, Event(writer, "end_document"))
        /\ IF raises
           THEN \* writer.end_document() raises: nothing else is done
                /\ bound' = bound
                /\ last' = [op |-> "pop_writer", err |-> "end_document",
                            ret |-> 0, stack |-> rest,
                            events |-> <<Event(writer, "end_document")>>]
           ELSE IF rest = <<>>
           THEN /\ bound' = bound
                /\ last' = [op |-> "pop_writer", err |-> "ok", ret |-> writer,
                            stack |-> rest,
                            events |-> <<Event(writer, "end_document")>>]
           ELSE IF writerClass[previous] \in hasCharacters
           THEN /\ bound' = upTo184
                /\ last' = [op |-> "pop_writer", err |-> "ok", ret |-> writer,
                            stack |-> rest,
                            events |-> <<Event(writer, "end_document")>>]
           ELSE \* previous.characters raises AttributeError
                /\ bound' = upTo181
                /\ last' = [op |-> "pop_writer", err |-> "AttributeError",
                            ret |-> 0, stack |-> rest,
                            events |-> <<Event(writer, "end_document")>>]
        /\ UNCHANGED <<writerClass, hasCharacters, ctxVars, cmp>>

\* a call of the construction operation o of the context: the attribute
\* lookup on the context decides who receives it
call(o) ==
    /\ IF bound[o] = Missing
       THEN last' = [op |-> "call", name |-> o, err |-> "AttributeError",
                     events |-> <<>>]
       ELSE last' = [op |-> "call", name |-> o, err |-> "ok",
                     events |-> <<Event(bound[o].self, bound[o].attr)>>]
    /\ UNCHANGED <<wrVars, ctxVars, cmp>>

(***************************************************************************)
(* The arguments the model constructs contexts with.                       *)
(***************************************************************************)
States == {<<NodeV(1), IntV(1), IntV(0)>>, <<NodeV(2), IntV(2), IntV(2)>>}
VariableArgs == {None, DictV([key \in {"v1"} |-> "a"])}
NamespaceArgs == {None, DictV([key \in {"p"} |-> "urn:p"]),
                  DictV([key \in {"xml"} |-> "urn:other"])}
ExtModuleArgs == {<<>>, <<ModuleV("modA")>>, <<ModuleV("modA"), ModuleV("modB")>>,
                  <<ModuleV("modB"), ModuleV("modA")>>, <<None, StrV("modB")>>,
                  <<ModuleV("modBare"), ModuleV("modEmpty")>>, <<StrV("nosuch")>>}
ExtFunctionArgs == {None, DictV([key \in {"f2"} |-> "fnX"]),
                    DictV([key \in {"f1", "f2"} |-> "fnX"])}

\* the state once the module is imported and the writing context constructed
Imported ==
    /\ heap = <<extension_functions>>
    /\ ctxs = <<>>
    /\ saved = {}
    /\ last = [op |-> "import", err |-> "ok", events |-> <<>>]
    /\ _writers = <<>>
    /\ bound = ClassAttributes
    /\ log = <<>>
    /\ writerClass = [w \in Writers |-> ""]

\* ... and no expression evaluated yet
Start ==
    /\ Imported
    /\ cmp = [op |-> "", left |-> None, right |-> None, result |-> FALSE]

Init == Start /\ hasCharacters = {"characterswriter"}

\* the writer classes of the library may or may not define `characters`
InitW ==
    /\ Start
    /\ hasCharacters \in {S \cup {"characterswriter"} :
                              S \in SUBSET {"treewriter", "stringwriter"}}

\* a context constructed over a node, with or without bindings of its own
Construct ==
    \E st \in States, vs \in VariableArgs,
       nss \in {None, DictV([key \in {"p"} |-> "urn:p"])} :
        new(st[1], st[2], st[3], vs, nss, <<>>, None)

Clone == \E c \in 1..Len(ctxs) : clone(c)

AddFunction ==
    \E c \in 1..Len(ctxs), expandedName \in FunctionNames,
       function \in {"fnY"} \cup NonCallables :
        addFunction(c, expandedName, function)

Next == Construct \/ Clone \/ AddFunction

Spec == Init /\ [][Next]_vars

\* the first context of a process, constructed with every kind of argument
ConstructFirst ==
    \E st \in States, vs \in VariableArgs, nss \in NamespaceArgs,
       extmodules \in ExtModuleArgs, extfunctions \in ExtFunctionArgs :
        /\ ctxs = <<>>
        /\ new(st[1], st[2], st[3], vs, nss, extmodules, extfunctions)

NextNew == ConstructFirst \/ AddFunction

SpecNew == Init /\ [][NextNew]_vars

(***************************************************************************)
(* Claims about clone, the registry and the namespaces.                    *)
(***************************************************************************)

\* C2: clone returns a new context whose node, position and size equal the
\* node, position and size of the context it was called on.
C2_CloneKeepsState ==
    last.op = "clone" =>
        /\ last.err = "ok"
        /\ ctxs[last.ret].node = ctxs[last.c].node
        /\ ctxs[last.ret].position = ctxs[last.c].position
        /\ ctxs[last.ret].size = ctxs[last.c].size

\* C3: a context returned by clone shares variables, namespaces and functions
\* with the original by reference: the attributes of both name the same dict
\* objects, so that a binding made through one is seen through the other.
C3_CloneSharesMappings ==
    (last.op = "clone" /\ last.err = "ok") =>
        /\ ctxs[last.ret].variables = ctxs[last.c].variables
        /\ ctxs[last.ret].namespaces = ctxs[last.c].namespaces
        /\ ctxs[last.ret].functions = ctxs[last.c].functions

\* C4: an addFunction call on one context changes neither the shared table
\* of the class nor the registry of any other context; the shared table is
\* never changed, and a context made after such calls (by the constructor
\* with no extension given, or by clone) starts from it and leaves the
\* registries of the others alone.
C4_RegistryIsPrivate ==
    [][ /\ heap'[functions] = extension_functions
        /\ last'.op = "addFunction" =>
              \A d \in 1..Len(ctxs) :
                  d # last'.c => heap'[ctxs'[d].functions] = heap[ctxs[d].functions]
        /\ Len(ctxs') > Len(ctxs) =>
              /\ \A d \in 1..Len(ctxs) :
                     heap'[ctxs'[d].functions] = heap[ctxs[d].functions]
              /\ heap'[ctxs'[Len(ctxs')].functions] = extension_functions
      ]_vars

C4_Witness ==
    /\ last.op = "addFunction" /\ last.err = "ok"
    /\ Len(ctxs) = 2
    /\ registry(last.c)[last.expandedName] = "fnY"
    /\ \E d \in 1..Len(ctxs) : d # last.c /\ registry(d) = extension_functions

\* the function table an item of extmodules contributes, and the one the
\* extfunctions argument contributes
TableOf(x) ==
    CASE x.k = "dict" -> x.d
      [] x.k = "module" /\ getattr_extension_functions(x.name).k = "dict" ->
             getattr_extension_functions(x.name).d
      [] x.k = "str" /\ getattr_extension_functions(x.s).k = "dict" ->
             getattr_extension_functions(x.s).d
      [] OTHER -> EmptyDict

Layers(extmodules, extfunctions) ==
    <<extension_functions>> \o [i \in 1..Len(extmodules) |-> TableOf(extmodules[i])]
        \o <<TableOf(extfunctions)>>

\* C5: the registry of a newly constructed context holds, for every key, the
\* value of the last layer (base table, module tables in the order supplied,
\* extfunctions) that defines the key, and no key that no layer defines.
C5_RegistryLayers ==
    (last.op = "__init__" /\ last.err = "ok") =>
        LET layers == Layers(last.extmodules, last.extfunctions)
            defining(key) == {i \in 1..Len(layers) : key \in DOMAIN layers[i]}
        IN  /\ DOMAIN registry(last.c) =
                   UNION {DOMAIN layers[i] : i \in 1..Len(layers)}
            /\ \A key \in DOMAIN registry(last.c) :
                   \E i \in defining(key) :
                       /\ \A j \in defining(key) : j <= i
                       /\ registry(last.c)[key] = layers[i][key]

C5_Witness ==
    /\ last.op = "__init__" /\ last.err = "ok"
    /\ last.extmodules = <<ModuleV("modA"), ModuleV("modB")>>
    /\ last.extfunctions = DictV([key \in {"f1", "f2"} |-> "fnX"])
    /\ registry(last.c) = [key \in {"f1", "f2"} |-> "fnX"]

\* C6: addFunction with a non-callable value fails with TypeError and leaves
\* the registry as it was; with a callable value it binds the given name to
\* it and leaves every other entry of the registry as it was.
C6_AddFunction ==
    [][ last'.op = "addFunction" =>
          LET before == heap[ctxs[last'.c].functions]
              after  == heap'[ctxs'[last'.c].functions]
          IN  IF last'.function \in NonCallables
              THEN last'.err = "TypeError" /\ after = before
              ELSE /\ last'.err = "ok"
                   /\ DOMAIN after = DOMAIN before \cup {last'.expandedName}
                   /\ after[last'.expandedName] = last'.function
                   /\ \A key \in DOMAIN before :
                          key # last'.expandedName => after[key] = before[key]
      ]_vars

C6_Witness ==
    /\ last.op = "addFunction" /\ last.err = "TypeError"
    /\ last.function \in NonCallables
    /\ last.expandedName \notin DOMAIN registry(last.c)

\* C7: in every context the namespaces mapping binds the prefix xml to
\* XML_NAMESPACE, whatever bindings were supplied at construction.
C7_XmlPrefixBound ==
    \A c \in 1..Len(ctxs) :
        /\ "xml" \in DOMAIN namespaces(c)
        /\ namespaces(c)["xml"] = XML_NAMESPACE

(***************************************************************************)
(* The writer stack of one context.                                        *)
(***************************************************************************)
\* push_writer with a writer of the caller: a new object or one of those
\* already created (a writer may be pushed again)
PushWriter ==
    \/ \E class \in CallerClasses :
           Free # {} /\ push_writer("push_writer", NewWriter, class)
    \/ \E w \in Writers \ Free : push_writer("push_writer", w, writerClass[w])

PushTreeWriter == push_tree_writer

PushStringWriter == push_string_writer

PopWriter == \E raises \in BOOLEAN : pop_writer(raises)

Call == \E o \in Ops : call(o)

NextW == PushWriter \/ PushTreeWriter \/ PushStringWriter \/ PopWriter \/ Call

SpecW == InitW /\ [][NextW]_vars

(***************************************************************************)
(* Claims about the writer stack.                                          *)
(***************************************************************************)
Top == _writers[Len(_writers)]

\* the operation of a writer that the operation o of the context stands for
SameOperation(o) == IF o = "characters" THEN "text" ELSE o

\* C1: while the writer stack is not empty, every construction operation of
\* the context resolves to the same operation of the top-of-stack writer
\* (text and characters both to its text), and a call of one is received by
\* that writer alone.
C1_ForwardsToTop ==
    _writers # <<>> =>
        /\ \A o \in Ops : bound[o] = BoundMethod(Top, SameOperation(o))
        /\ last.op = "call" =>
               last.events = <<Event(Top, SameOperation(last.name))>>

\* C8: a push puts the one writer pushed on top of the stack above the
\* writers already there, makes exactly one callback, start_document on the
\* writer pushed, and leaves every operation of the context bound to it.
C8_Push ==
    [][ last'.op \in {"push_writer", "push_tree_writer", "push_string_writer"} =>
          /\ _writers' = Append(_writers, last'.w)
          /\ last'.events = <<Event(last'.w, "start_document")>>
          /\ log' = Append(log, Event(last'.w, "start_document"))
          /\ \A o \in Ops : bound'[o].self = last'.w
      ]_vars

C8_Witness ==
    /\ last.op = "push_tree_writer"
    /\ Len(_writers) = 2
    /\ _writers[1] # _writers[2]
    /\ writerClass[_writers[1]] = "stringwriter"
    /\ log = <<Event(_writers[1], "start_document"),
               Event(_writers[2], "start_document")>>

\* the writers begun and not yet ended after the callbacks of lg, oldest first
RECURSIVE Open(_)
Open(lg) ==
    IF lg = <<>> THEN <<>>
    ELSE LET before == Open(SubSeq(lg, 1, Len(lg) - 1))
             e == lg[Len(lg)]
         IN  IF e.m = "start_document" THEN Append(before, e.w)
             ELSE SubSeq(before, 1, Len(before) - 1)

\* every end callback of lg goes to the writer begun last among those open
EndedInReverse(lg) ==
    \A i \in 1..Len(lg) :
        lg[i].m = "end_document" =>
            LET open == Open(SubSeq(lg, 1, i - 1))
            IN  open # <<>> /\ open[Len(open)] = lg[i].w

\* C9: on a stack that is not empty pop_writer removes the top writer and
\* returns it, makes exactly one callback, end_document on that writer, and
\* leaves the writers below as they were, so that writers are ended in the
\* reverse of the order in which they were begun.
C9_PopIsLifo ==
    [][ (last'.op = "pop_writer" /\ _writers # <<>>
         /\ last'.err # "end_document") =>
          /\ last'.err = "ok"
          /\ last'.ret = Top
          /\ _writers' = SubSeq(_writers, 1, Len(_writers) - 1)
          /\ last'.events = <<Event(Top, "end_document")>>
          /\ log' = Append(log, Event(Top, "end_document"))
          /\ EndedInReverse(log')
      ]_vars

(***************************************************************************)
(* XPath values and the equality operators.  A string is the sequence of   *)
(* its characters.  The operators themselves (amara.xpath.expressions.     *)
(* booleans) are modelled after section 4 of the specification; the nodes  *)
(* and the table of expected results are those of test_boolean_expr.py.    *)
(***************************************************************************)
boolean(b) == [t |-> "boolean", b |-> b]
number(n)  == [t |-> "number", n |-> n]
string(s)  == [t |-> "string", s |-> s]
nodeset(S) == [t |-> "nodeset", nodes |-> S]

\* the numbers: the finite ones (integers here), NaN and the two infinities
Fin(i) == [c |-> "fin", v |-> i]
NaN    == [c |-> "nan", v |-> 0]
Inf(sign) == [c |-> "inf", v |-> sign]

\* the string-value of the nodes the tests build
StringValue(node) ==
    CASE node = "EGG1"  -> <<"e", "g", "g", "1">>
      [] node = "EGG2"  -> <<"e", "g", "g", "2">>
      [] node = "NUM0"  -> <<"0">>
      [] node = "NUM2"  -> <<"2">>
      [] node = "NUM4"  -> <<"4">>
      [] node = "NUM31" -> <<"3", "1">>

DigitValue(ch) ==
    CASE ch = "0" -> 0 [] ch = "1" -> 1 [] ch = "2" -> 2 [] ch = "3" -> 3
      [] ch = "4" -> 4 [] ch = "5" -> 5 [] ch = "6" -> 6 [] ch = "7" -> 7
      [] ch = "8" -> 8 [] ch = "9" -> 9
DigitChars == {"0", "1", "2", "3", "4", "5", "6", "7", "8", "9"}

RECURSIVE TrimLeft(_)
TrimLeft(s) == IF s # <<>> /\ Head(s) = " " THEN TrimLeft(Tail(s)) ELSE s
RECURSIVE TrimRight(_)
TrimRight(s) ==
    IF s # <<>> /\ s[Len(s)] = " " THEN TrimRight(SubSeq(s, 1, Len(s) - 1)) ELSE s

\* the value of a sequence of digits, read from the left
RECURSIVE DigitsValue(_, _)
DigitsValue(s, acc) ==
    IF s = <<>> THEN acc ELSE DigitsValue(Tail(s), 10 * acc + DigitValue(Head(s)))

\* string -> number: whitespace trimmed, an optional sign, digits; any other
\* string is NaN (the strings of the model have no fraction part)
StringToNumber(s) ==
    LET t == TrimRight(TrimLeft(s))
        negative == t # <<>> /\ Head(t) = "-"
        digits == IF negative THEN Tail(t) ELSE t
    IN  IF digits = <<>> \/ \E i \in 1..Len(digits) : digits[i] \notin DigitChars
        THEN NaN
        ELSE Fin(IF negative THEN 0 - DigitsValue(digits, 0)
                 ELSE DigitsValue(digits, 0))

toBoolean(v) ==
    CASE v.t = "boolean" -> v.b
      [] v.t = "number"  -> v.n.c # "nan" /\ v.n # Fin(0)
      [] v.t = "string"  -> v.s # <<>>
      [] v.t = "nodeset" -> v.nodes # {}

\* for a value that is no node-set
toNumber(v) ==
    CASE v.t = "number"  -> v.n
      [] v.t = "string"  -> StringToNumber(v.s)
      [] v.t = "boolean" -> IF v.b THEN Fin(1) ELSE Fin(0)

\* equality of numbers: NaN equals nothing, itself included
NumberEquals(a, b) == a.c # "nan" /\ b.c # "nan" /\ a = b

\* op applied to two Booleans, two Numbers, two Strings
CompareBooleans(op, a, b) == IF op = "=" THEN a = b ELSE a # b
CompareNumbers(op, a, b) ==
    IF op = "=" THEN NumberEquals(a, b) ELSE ~NumberEquals(a, b)
CompareStrings(op, a, b) == IF op = "=" THEN a = b ELSE a # b

\* l op r for op one of "=", "!="
equality_expr(l, op, r) ==
    CASE l.t = "nodeset" /\ r.t = "nodeset" ->
             \E a \in l.nodes, b \in r.nodes :
                 CompareStrings(op, StringValue(a), StringValue(b))
      [] l.t = "nodeset" /\ r.t = "boolean" ->
             CompareBooleans(op, toBoolean(l), r.b)
      [] l.t = "boolean" /\ r.t = "nodeset" ->
             CompareBooleans(op, l.b, toBoolean(r))
      [] l.t = "nodeset" /\ r.t = "number" ->
             \E a \in l.nodes :
                 CompareNumbers(op, StringToNumber(StringValue(a)), r.n)
      [] l.t = "number" /\ r.t = "nodeset" ->
             \E b \in r.nodes :
                 CompareNumbers(op, l.n, StringToNumber(StringValue(b)))
      [] l.t = "nodeset" /\ r.t = "string" ->
             \E a \in l.nodes : CompareStrings(op, StringValue(a), r.s)
      [] l.t = "string" /\ r.t = "nodeset" ->
             \E b \in r.nodes : CompareStrings(op, l.s, StringValue(b))
      [] l.t # "nodeset" /\ r.t # "nodeset" /\ "boolean" \in {l.t, r.t} ->
             CompareBooleans(op, toBoolean(l), toBoolean(r))
      [] l.t # "nodeset" /\ r.t # "nodeset" /\ "boolean" \notin {l.t, r.t}
             /\ "number" \in {l.t, r.t} ->
             CompareNumbers(op, toNumber(l), toNumber(r))
      [] l.t = "string" /\ r.t = "string" ->
             CompareStrings(op, l.s, r.s)

\* a row of a test table: ((left, op, right), expected)
Case(l, op, r, expected) ==
    [left |-> l, op |-> op, right |-> r, expected |-> expected]

\* the rows of test_equality_expr.test_cases for `=`
test_cases_eq == {
    Case(number(Fin(5)), "=", number(Fin(5)), TRUE),
    Case(number(Fin(5)), "=", number(Fin(-5)), FALSE),
    Case(number(Fin(-5)), "=", number(Fin(-5)), TRUE),
    Case(number(Fin(0)), "=", number(Fin(0)), TRUE),
    Case(number(Inf(1)), "=", number(Inf(1)), TRUE),
    Case(number(Inf(1)), "=", number(Inf(-1)), FALSE),
    Case(number(Inf(-1)), "=", number(Inf(1)), FALSE),
    Case(number(Inf(-1)), "=", number(Inf(-1)), TRUE),
    Case(number(Fin(5)), "=", number(Inf(1)), FALSE),
    Case(number(Fin(5)), "=", number(NaN), FALSE),
    Case(number(NaN), "=", number(NaN), FALSE),
    Case(number(Fin(5)), "=", nodeset({"NUM31"}), FALSE),
    Case(string(<<"5">>), "=", string(<<"5">>), TRUE),
    Case(string(<<"5">>), "=", string(<<"-", "5">>), FALSE),
    Case(string(<<"-", "5">>), "=", string(<<"-", "5">>), TRUE),
    Case(string(<<"0">>), "=", string(<<"0">>), TRUE),
    Case(string(<<"H", "i">>), "=", string(<<"H", "i">>), TRUE),
    Case(string(<<"5">>), "=", string(<<"H", "i">>), FALSE),
    Case(string(<<"5">>), "=", string(<<"N", "a", "N">>), FALSE),
    Case(string(<<"N", "a", "N">>), "=", string(<<"N", "a", "N">>), TRUE),
    Case(string(<<"5">>), "=", nodeset({"NUM31"}), FALSE),
    Case(nodeset({}), "=", boolean(TRUE), FALSE),
    Case(nodeset({}), "=", boolean(FALSE), TRUE),
    Case(nodeset({}), "=", nodeset({"EGG1"}), FALSE),
    Case(nodeset({"EGG1"}), "=", nodeset({}), FALSE),
    Case(nodeset({"EGG1"}), "=", nodeset({"EGG1"}), TRUE),
    Case(string(<<"e", "g", "g", "1">>), "=", nodeset({"EGG1"}), TRUE),
    Case(string(<<"e", "g", "g", "2">>), "=", nodeset({"EGG1"}), FALSE),
    Case(string(<<"e", "g", "g", "1">>), "=", nodeset({"EGG1", "EGG2"}), TRUE)
    }

\* the `!=` rows, had they been written as the negation of the `=` rows
test_cases_ne_negated ==
    {Case(row.left, "!=", row.right, ~row.expected) : row \in test_cases_eq}

\* `!=` rows that expect an empty node-set to differ from a node-set
test_cases_ne_emptyDiffers == {
    Case(nodeset({}), "!=", nodeset({"EGG1"}), TRUE),
    Case(nodeset({"EGG1"}), "!=", nodeset({}), TRUE)
    }

\* the rows of test_equality_expr.test_cases for `!=`
test_cases_ne == {
    Case(number(Fin(5)), "!=", number(Fin(5)), FALSE),
    Case(number(Fin(5)), "!=", number(Fin(-5)), TRUE),
    Case(number(Fin(-5)), "!=", number(Fin(-5)), FALSE),
    Case(number(Fin(0)), "!=", number(Fin(0)), FALSE),
    Case(number(Inf(1)), "!=", number(Inf(1)), FALSE),
    Case(number(Inf(1)), "!=", number(Inf(-1)), TRUE),
    Case(number(Inf(-1)), "!=", number(Inf(1)), TRUE),
    Case(number(Inf(-1)), "!=", number(Inf(-1)), FALSE),
    Case(number(Fin(5)), "!=", number(Inf(1)), TRUE),
    Case(number(Fin(5)), "!=", number(NaN), TRUE),
    Case(number(NaN), "!=", number(NaN), TRUE),
    Case(number(Fin(5)), "!=", nodeset({"NUM31"}), TRUE),
    Case(string(<<"5">>), "!=", string(<<"5">>), FALSE),
    Case(string(<<"5">>), "!=", string(<<"-", "5">>), TRUE),
    Case(string(<<"-", "5">>), "!=", string(<<"-", "5">>), FALSE),
    Case(string(<<"0">>), "!=", string(<<"0">>), FALSE),
    Case(string(<<"5">>), "!=", string(<<"H", "i">>), TRUE),
    Case(string(<<"5">>), "!=", string(<<"N", "a", "N">>), TRUE),
    Case(string(<<"N", "a", "N">>), "!=", string(<<"N", "a", "N">>), FALSE),
    Case(string(<<"5">>), "!=", nodeset({"NUM31"}), TRUE),
    Case(nodeset({}), "!=", boolean(TRUE), TRUE),
    Case(nodeset({}), "!=", boolean(FALSE), FALSE),
    Case(nodeset({}), "!=", nodeset({"EGG1"}), FALSE),
    Case(nodeset({"EGG1"}), "!=", nodeset({}), FALSE),
    Case(nodeset({"EGG1"}), "!=", nodeset({"EGG1"}), FALSE),
    Case(string(<<"e", "g", "g", "1">>), "!=", nodeset({"EGG1"}), FALSE),
    Case(string(<<"e", "g", "g", "2">>), "!=", nodeset({"EGG1"}), TRUE),
    Case(string(<<"e", "g", "g", "1">>), "!=", nodeset({"EGG1", "EGG2"}), TRUE)
    }

test_equality_expr == test_cases_eq \cup test_cases_ne

\* the operands the model evaluates the operators on
Values ==
    {boolean(TRUE), boolean(FALSE)}
    \cup {number(n) : n \in {Fin(5), Fin(-5), Fin(0), NaN, Inf(1), Inf(-1)}}
    \cup {string(s) : s \in {<<"5">>, <<"-", "5">>, <<"0">>, <<"H", "i">>,
                             <<"N", "a", "N">>, <<"e", "g", "g", "1">>,
                             <<"e", "g", "g", "2">>, <<>>}}
    \cup {nodeset(S) : S \in SUBSET {"EGG1", "EGG2", "NUM31"}}

\* the evaluation of an equality expression over two literals
Evaluate ==
    \E l \in Values, r \in Values, op \in {"=", "!="} :
        /\ cmp' = [op |-> op, left |-> l, right |-> r,
                   result |-> equality_expr(l, op, r)]
        /\ UNCHANGED <<ctxVars, wrVars, last>>

NextCmp == Evaluate

SpecCmp == Init /\ [][NextCmp]_vars

(***************************************************************************)
(* Claims about the equality operators.                                    *)
(***************************************************************************)
\* whether the string-value sv differs from the value other, taken as a
\* String, a Number or a Boolean as other is one
Differs(sv, other) ==
    CASE other.t = "string"  -> sv # other.s
      [] other.t = "number"  -> ~NumberEquals(StringToNumber(sv), other.n)
      [] other.t = "boolean" -> (sv # <<>>) # other.b

\* some node of the set(s) has a string-value different from the other side
SomeNodeDiffers(l, r) ==
    CASE l.t = "nodeset" /\ r.t = "nodeset" ->
             \E a \in l.nodes, b \in r.nodes : StringValue(a) # StringValue(b)
      [] l.t = "nodeset" /\ r.t # "nodeset" ->
             \E a \in l.nodes : Differs(StringValue(a), r)
      [] l.t # "nodeset" /\ r.t = "nodeset" ->
             \E b \in r.nodes : Differs(StringValue(b), l)

\* the string-values of the two operands are such that both tests succeed:
\* a set with two distinct string-values against a String equal to one
TwoValuesOneEqual(l, r) ==
    /\ l.t = "string" /\ r.t = "nodeset"
    /\ \E a \in r.nodes, b \in r.nodes :
           StringValue(a) = l.s /\ StringValue(b) # l.s

\* the rows of the table the comparison last evaluated is one of
RowsOfCmp ==
    {row \in test_equality_expr :
         row.left = cmp.left /\ row.op = cmp.op /\ row.right = cmp.right}

\* C10 (as stated): with a NodeSet operand, != holds iff some node of the
\* set (some pair of nodes, for two NodeSets) has a string-value different
\* from the other side.
C10_NotEqualIsExistential ==
    (cmp.op = "!=" /\ "nodeset" \in {cmp.left.t, cmp.right.t}) =>
        (cmp.result <=> SomeNodeDiffers(cmp.left, cmp.right))

\* C10 (amended): with a NodeSet operand and the other operand a NodeSet, a
\* Number or a String, != holds iff some node (pair of nodes) has a
\* string-value different from the other side; it is not the negation of =:
\* for a set with two distinct string-values and a String equal to one of
\* them both = and != are true, for a one-node set equal to the String = is
\* true and != is false; and the outcome is the one the tests expect.
C10_NotEqualIsExistentialButForBoolean ==
    cmp.op = "!=" =>
        /\ ("nodeset" \in {cmp.left.t, cmp.right.t}
            /\ "boolean" \notin {cmp.left.t, cmp.right.t}) =>
               (cmp.result <=> SomeNodeDiffers(cmp.left, cmp.right))
        /\ TwoValuesOneEqual(cmp.left, cmp.right) =>
               cmp.result /\ equality_expr(cmp.left, "=", cmp.right)
        /\ (cmp.left.t = "string" /\ cmp.right.t = "nodeset"
            /\ \E a \in cmp.right.nodes :
                   cmp.right.nodes = {a} /\ StringValue(a) = cmp.left.s) =>
               ~cmp.result /\ equality_expr(cmp.left, "=", cmp.right)
        /\ \A row \in RowsOfCmp : cmp.result = row.expected

C10_Witness ==
    /\ cmp.op = "!="
    /\ cmp.left = string(<<"e", "g", "g", "1">>)
    /\ cmp.right = nodeset({"EGG1", "EGG2"})
    /\ cmp.result
    /\ RowsOfCmp # {}

(***************************************************************************)
(* The relational and the logical operators, and the evaluation of one     *)
(* expression `left op right` over two literals.                           *)
(***************************************************************************)
\* a < b for two numbers neither of which is NaN
NumberLess(a, b) ==
    CASE a.c = "fin" /\ b.c = "fin" -> a.v < b.v
      [] a.c = "fin" /\ b.c = "inf" -> b.v = 1
      [] a.c = "inf" /\ b.c = "fin" -> a.v = -1
      [] a.c = "inf" /\ b.c = "inf" -> a.v < b.v

\* a op b for op one of "<", "<=", ">", ">=": false when either is NaN
RelateNumbers(op, a, b) ==
    /\ a.c # "nan"
    /\ b.c # "nan"
    /\ CASE op = "<"  -> NumberLess(a, b)
         [] op = "<=" -> NumberLess(a, b) \/ a = b
         [] op = ">"  -> NumberLess(b, a)
         [] op = ">=" -> NumberLess(b, a) \/ a = b

\* l op r for op one of "<", "<=", ">", ">=", the operands in their order
relational_expr(l, op, r) ==
    CASE l.t = "nodeset" /\ r.t = "nodeset" ->
             \E a \in l.nodes, b \in r.nodes :
                 RelateNumbers(op, StringToNumber(StringValue(a)),
                               StringToNumber(StringValue(b)))
      [] l.t = "nodeset" /\ r.t = "boolean" ->
             RelateNumbers(op, toNumber(boolean(toBoolean(l))), toNumber(r))
      [] l.t = "boolean" /\ r.t = "nodeset" ->
             RelateNumbers(op, toNumber(l), toNumber(boolean(toBoolean(r))))
      [] l.t = "nodeset" /\ r.t \in {"number", "string"} ->
             \E a \in l.nodes :
                 RelateNumbers(op, StringToNumber(StringValue(a)), toNumber(r))
      [] l.t \in {"number", "string"} /\ r.t = "nodeset" ->
             \E b \in r.nodes :
                 RelateNumbers(op, toNumber(l), StringToNumber(StringValue(b)))
      [] l.t # "nodeset" /\ r.t # "nodeset" ->
             RelateNumbers(op, toNumber(l), toNumber(r))

\* rows that expect NaN to be ordered after every number
test_cases_rel_numbers_nanOrdered == {
    Case(number(Fin(5)), "<", number(NaN), TRUE),
    Case(number(Fin(5)), "<=", number(NaN), TRUE),
    Case(number(Fin(5)), ">", number(NaN), FALSE),
    Case(number(Fin(5)), ">=", number(NaN), FALSE)
    }

\* test_relational_expr.test_cases, number against number
test_cases_rel_numbers == {
    Case(number(Fin(5)), "<", number(Fin(5)), FALSE),
    Case(number(Fin(5)), "<=", number(Fin(5)), TRUE),
    Case(number(Fin(5)), ">", number(Fin(5)), FALSE),
    Case(number(Fin(5)), ">=", number(Fin(5)), TRUE),
    Case(number(Fin(5)), "<", number(Fin(-5)), FALSE),
    Case(number(Fin(5)), "<=", number(Fin(-5)), FALSE),
    Case(number(Fin(5)), ">", number(Fin(-5)), TRUE),
    Case(number(Fin(5)), ">=", number(Fin(-5)), TRUE),
    Case(number(Fin(5)), "<", number(Fin(0)), FALSE),
    Case(number(Fin(5)), "<=", number(Fin(0)), FALSE),
    Case(number(Fin(5)), ">", number(Fin(0)), TRUE),
    Case(number(Fin(5)), ">=", number(Fin(0)), TRUE),
    Case(number(Fin(5)), "<", number(Inf(1)), TRUE),
    Case(number(Fin(5)), "<=", number(Inf(1)), TRUE),
    Case(number(Fin(5)), ">", number(Inf(1)), FALSE),
    Case(number(Fin(5)), ">=", number(Inf(1)), FALSE),
    Case(number(Fin(5)), "<", number(Inf(-1)), FALSE),
    Case(number(Fin(5)), "<=", number(Inf(-1)), FALSE),
    Case(number(Fin(5)), ">", number(Inf(-1)), TRUE),
    Case(number(Fin(5)), ">=", number(Inf(-1)), TRUE),
    Case(number(Fin(5)), "<", number(NaN), FALSE),
    Case(number(Fin(5)), "<=", number(NaN), FALSE),
    Case(number(Fin(5)), ">", number(NaN), FALSE),
    Case(number(Fin(5)), ">=", number(NaN), FALSE)
    }

\* test_relational_expr.test_cases, number against node-set
test_cases_rel_number_nodeset == {
    Case(number(Fin(5)), "<", nodeset({"NUM31"}), TRUE),
    Case(number(Fin(5)), "<=", nodeset({"NUM31"}), TRUE),
    Case(number(Fin(5)), ">", nodeset({"NUM31"}), FALSE),
    Case(number(Fin(5)), ">=", nodeset({"NUM31"}), FALSE)
    }

\* rows that expect two strings to be compared as strings
test_cases_rel_strings_lexical == {
    Case(string(<<"3", "1">>), "<", string(<<"5">>), TRUE),
    Case(string(<<"3", "1">>), "<=", string(<<"5">>), TRUE),
    Case(string(<<"3", "1">>), ">", string(<<"5">>), FALSE),
    Case(string(<<"3", "1">>), ">=", string(<<"5">>), FALSE),
    Case(string(<<"5">>), "<", string(<<"H", "i">>), FALSE),
    Case(string(<<"5">>), "<=", string(<<"H", "i">>), FALSE),
    Case(string(<<"5">>), ">", string(<<"H", "i">>), TRUE),
    Case(string(<<"5">>), ">=", string(<<"H", "i">>), TRUE)
    }

\* test_relational_expr.test_cases, numbers and strings, no node-set
test_cases_rel_strings == {
    Case(number(Fin(5)), "<", string(<<"5">>), FALSE),
    Case(number(Fin(5)), "<=", string(<<"5">>), TRUE),
    Case(number(Fin(5)), ">", string(<<"5">>), FALSE),
    Case(number(Fin(5)), ">=", string(<<"5">>), TRUE),
    Case(number(Fin(31)), "<", string(<<"5">>), FALSE),
    Case(number(Fin(31)), "<=", string(<<"5">>), FALSE),
    Case(number(Fin(31)), ">", string(<<"5">>), TRUE),
    Case(number(Fin(31)), ">=", string(<<"5">>), TRUE),
    Case(string(<<"5">>), "<", string(<<"5">>), FALSE),
    Case(string(<<"5">>), "<=", string(<<"5">>), TRUE),
    Case(string(<<"5">>), ">", string(<<"5">>), FALSE),
    Case(string(<<"5">>), ">=", string(<<"5">>), TRUE),
    Case(string(<<"3", "1">>), "<", string(<<"5">>), FALSE),
    Case(string(<<"3", "1">>), "<=", string(<<"5">>), FALSE),
    Case(string(<<"3", "1">>), ">", string(<<"5">>), TRUE),
    Case(string(<<"3", "1">>), ">=", string(<<"5">>), TRUE),
    Case(number(Fin(5)), "<", string(<<"-", "5">>), FALSE),
    Case(number(Fin(5)), "<=", string(<<"-", "5">>), FALSE),
    Case(number(Fin(5)), ">", string(<<"-", "5">>), TRUE),
    Case(number(Fin(5)), ">=", string(<<"-", "5">>), TRUE),
    Case(number(Fin(31)), "<", string(<<"-", "5">>), FALSE),
    Case(number(Fin(31)), "<=", string(<<"-", "5">>), FALSE),
    Case(number(Fin(31)), ">", string(<<"-", "5">>), TRUE),
    Case(number(Fin(31)), ">=", string(<<"-", "5">>), TRUE),
    Case(string(<<"5">>), "<", string(<<"-", "5">>), FALSE),
    Case(string(<<"5">>), "<=", string(<<"-", "5">>), FALSE),
    Case(string(<<"5">>), ">", string(<<"-", "5">>), TRUE),
    Case(string(<<"5">>), ">=", string(<<"-", "5">>), TRUE),
    Case(string(<<"3", "1">>), "<", string(<<"-", "5">>), FALSE),
    Case(string(<<"3", "1">>), "<=", string(<<"-", "5">>), FALSE),
    Case(string(<<"3", "1">>), ">", string(<<"-", "5">>), TRUE),
    Case(string(<<"3", "1">>), ">=", string(<<"-", "5">>), TRUE),
    Case(string(<<"5">>), "<", string(<<"H", "i">>), FALSE),
    Case(string(<<"5">>), "<=", string(<<"H", "i">>), FALSE),
    Case(string(<<"5">>), ">", string(<<"H", "i">>), FALSE),
    Case(string(<<"5">>), ">=", string(<<"H", "i">>), FALSE)
    }

\* test_relational_expr.test_cases, string against node-set
test_cases_rel_string_nodeset == {
    Case(string(<<"5">>), "<", nodeset({"NUM31"}), TRUE),
    Case(string(<<"5">>), "<=", nodeset({"NUM31"}), TRUE),
    Case(string(<<"5">>), ">", nodeset({"NUM31"}), FALSE),
    Case(string(<<"5">>), ">=", nodeset({"NUM31"}), FALSE)
    }

\* rows that expect the operands of a node-set comparison to be swapped
test_cases_rel_nodesets_swapped == {
    Case(nodeset({"NUM0"}), "<", nodeset({"NUM2"}), FALSE),
    Case(nodeset({"NUM0"}), "<=", nodeset({"NUM2"}), FALSE),
    Case(nodeset({"NUM0"}), ">", nodeset({"NUM2"}), TRUE),
    Case(nodeset({"NUM0"}), ">=", nodeset({"NUM2"}), TRUE),
    Case(nodeset({"NUM4"}), "<", nodeset({"NUM2"}), TRUE),
    Case(nodeset({"NUM4"}), "<=", nodeset({"NUM2"}), TRUE),
    Case(nodeset({"NUM4"}), ">", nodeset({"NUM2"}), FALSE),
    Case(nodeset({"NUM4"}), ">=", nodeset({"NUM2"}), FALSE)
    }

\* test_relational_expr.test_cases, node-set against node-set
test_cases_rel_nodesets == {
    Case(nodeset({"NUM2"}), "<", nodeset({"NUM2"}), FALSE),
    Case(nodeset({"NUM2"}), "<=", nodeset({"NUM2"}), TRUE),
    Case(nodeset({"NUM2"}), ">", nodeset({"NUM2"}), FALSE),
    Case(nodeset({"NUM2"}), ">=", nodeset({"NUM2"}), TRUE),
    Case(nodeset({"NUM0"}), "<", nodeset({"NUM2"}), TRUE),
    Case(nodeset({"NUM0"}), "<=", nodeset({"NUM2"}), TRUE),
    Case(nodeset({"NUM0"}), ">", nodeset({"NUM2"}), FALSE),
    Case(nodeset({"NUM0"}), ">=", nodeset({"NUM2"}), FALSE),
    Case(nodeset({"NUM4"}), "<", nodeset({"NUM2"}), FALSE),
    Case(nodeset({"NUM4"}), "<=", nodeset({"NUM2"}), FALSE),
    Case(nodeset({"NUM4"}), ">", nodeset({"NUM2"}), TRUE),
    Case(nodeset({"NUM4"}), ">=", nodeset({"NUM2"}), TRUE)
    }

test_relational_expr ==
    test_cases_rel_numbers \cup test_cases_rel_number_nodeset
    \cup test_cases_rel_strings \cup test_cases_rel_string_nodeset
    \cup test_cases_rel_nodesets

\* `left and right`: the operands it evaluates, in order, and its result
and_expr(l, r) ==
    IF toBoolean(l)
    THEN [evaluated |-> <<"left", "right">>, result |-> toBoolean(r)]
    ELSE [evaluated |-> <<"left">>, result |-> FALSE]

\* `left or right`: the operands it evaluates, in order, and its result
or_expr(l, r) ==
    IF toBoolean(l)
    THEN [evaluated |-> <<"left">>, result |-> TRUE]
    ELSE [evaluated |-> <<"left", "right">>, result |-> toBoolean(r)]

\* test_or_expr.test_cases
test_cases_or == {
    Case(boolean(FALSE), "or", boolean(FALSE), FALSE),
    Case(boolean(TRUE), "or", boolean(FALSE), TRUE),
    Case(boolean(FALSE), "or", boolean(TRUE), TRUE),
    Case(boolean(TRUE), "or", boolean(TRUE), TRUE)
    }

\* rows that expect `and` to hold as soon as one operand does
test_cases_and_asOr == {
    Case(boolean(FALSE), "and", boolean(FALSE), FALSE),
    Case(boolean(TRUE), "and", boolean(FALSE), TRUE),
    Case(boolean(FALSE), "and", boolean(TRUE), TRUE),
    Case(boolean(TRUE), "and", boolean(TRUE), TRUE)
    }

\* test_and_expr.test_cases
test_cases_and == {
    Case(boolean(FALSE), "and", boolean(FALSE), FALSE),
    Case(boolean(TRUE), "and", boolean(FALSE), FALSE),
    Case(boolean(FALSE), "and", boolean(TRUE), FALSE),
    Case(boolean(TRUE), "and", boolean(TRUE), TRUE)
    }

\* every row of the four test classes
test_boolean_expr ==
    test_cases_or \cup test_cases_and \cup test_equality_expr
    \cup test_relational_expr

EqualityOps == {"=", "!="}
RelationalOps == {"<", "<=", ">", ">="}

\* the literals an expression is built from: those of the equality
\* operators, and the number, the string and the attribute nodes the
\* relational tests add
Operands ==
    Values
    \cup {number(Fin(31)), string(<<"3", "1">>)}
    \cup {nodeset(S) : S \in SUBSET {"EGG1", "EGG2", "NUM0", "NUM2", "NUM4",
                                     "NUM31"}}

\* an expression parsed, not evaluated yet
InitExpr ==
    /\ Imported
    /\ hasCharacters = {"characterswriter"}
    /\ \E l \in Operands, r \in Operands,
          op \in EqualityOps \cup RelationalOps \cup {"and", "or"} :
           cmp = [op |-> op, left |-> l, right |-> r, evaluated |-> <<>>,
                  result |-> FALSE, done |-> FALSE]

\* evaluate_as_boolean of the expression: a comparison evaluates both
\* operands, a logical operator those its left operand makes necessary
Evaluated(outcome) ==
    /\ ~cmp.done
    /\ cmp' = [cmp EXCEPT !.evaluated = outcome.evaluated,
                          !.result = outcome.result, !.done = TRUE]
    /\ UNCHANGED <<ctxVars, wrVars, last>>

EvaluateEquality ==
    /\ cmp.op \in EqualityOps
    /\ Evaluated([evaluated |-> <<"left", "right">>,
                  result |-> equality_expr(cmp.left, cmp.op, cmp.right)])

EvaluateRelational ==
    /\ cmp.op \in RelationalOps
    /\ Evaluated([evaluated |-> <<"left", "right">>,
                  result |-> relational_expr(cmp.left, cmp.op, cmp.right)])

EvaluateAnd == cmp.op = "and" /\ Evaluated(and_expr(cmp.left, cmp.right))

EvaluateOr == cmp.op = "or" /\ Evaluated(or_expr(cmp.left, cmp.right))

NextExpr ==
    EvaluateEquality \/ EvaluateRelational \/ EvaluateAnd \/ EvaluateOr

SpecExpr == InitExpr /\ [][NextExpr]_vars

\* the rows of the test tables that are the expression evaluated
RowsOfExpr ==
    {row \in test_boolean_expr :
         row.left = cmp.left /\ row.op = cmp.op /\ row.right = cmp.right}

(***************************************************************************)
(* Claims about the comparison and the logical operators.                  *)
(***************************************************************************)
\* the operand that is not `side`
Other(side) == IF side = "left" THEN cmp.right ELSE cmp.left

\* the operand that is `side`
Operand(side) == IF side = "left" THEN cmp.left ELSE cmp.right

\* C11: comparing an empty NodeSet with a Boolean follows Boolean coercion
\* (empty = false true, empty = true false, empty != true true,
\* empty != false false); comparing it with a NodeSet, a Number or a String
\* is false for each of the six operators, != included, in either operand
\* order; and the outcome is the one the tests expect.
C11_EmptyNodeSet ==
    (cmp.done /\ cmp.op \in EqualityOps \cup RelationalOps) =>
        /\ \A side \in {"left", "right"} :
               Operand(side) = nodeset({}) =>
                   /\ (Other(side).t = "boolean" /\ cmp.op = "=") =>
                          (cmp.result <=> ~Other(side).b)
                   /\ (Other(side).t = "boolean" /\ cmp.op = "!=") =>
                          (cmp.result <=> Other(side).b)
                   /\ Other(side).t \in {"nodeset", "number", "string"} =>
                          ~cmp.result
        /\ \A row \in RowsOfExpr : cmp.result = row.expected

C11_Witness ==
    /\ cmp.done
    /\ cmp.op = "!="
    /\ cmp.left = nodeset({"EGG1"})
    /\ cmp.right = nodeset({})
    /\ ~cmp.result
    /\ RowsOfExpr # {}

\* the comparison is one of two numbers: no operand is a NodeSet, and the
\* operator is relational, or no operand is a Boolean and one is a Number
NumericComparison ==
    /\ "nodeset" \notin {cmp.left.t, cmp.right.t}
    /\ \/ cmp.op \in RelationalOps
       \/ /\ cmp.op \in EqualityOps
          /\ "boolean" \notin {cmp.left.t, cmp.right.t}
          /\ "number" \in {cmp.left.t, cmp.right.t}

\* the comparison is one of the nodes of a NodeSet, as numbers, with the
\* other operand, and the set has a node
NumericNodeComparison ==
    \E side \in {"left", "right"} :
        /\ Operand(side).t = "nodeset"
        /\ Operand(side).nodes # {}
        /\ \/ Other(side).t = "number"
           \/ Other(side).t = "string" /\ cmp.op \in RelationalOps

\* the operand that is no NodeSet is NaN once converted to a number
SomeOperandIsNaN ==
    \E side \in {"left", "right"} :
        Operand(side).t # "nodeset" /\ toNumber(Operand(side)) = NaN

\* C12: when an operand of a comparison of numbers is NaN after coercion,
\* each of =, <, <=, >, >= is false and != is true (NaN = NaN is false,
\* NaN != NaN is true); two Strings under = or != are compared as strings
\* ("NaN" = "NaN" is true, "NaN" != "NaN" is false); and the outcome is the
\* one the tests expect.
C12_NaN ==
    (cmp.done /\ cmp.op \in EqualityOps \cup RelationalOps) =>
        /\ ((NumericComparison \/ NumericNodeComparison)
              /\ SomeOperandIsNaN) =>
               (cmp.result <=> cmp.op = "!=")
        /\ (cmp.left.t = "string" /\ cmp.right.t = "string"
            /\ cmp.op \in EqualityOps) =>
               (cmp.result <=> (cmp.op = "=" <=> cmp.left.s = cmp.right.s))
        /\ \A row \in RowsOfExpr : cmp.result = row.expected

C12_Witness ==
    /\ cmp.done
    /\ cmp.op = ">="
    /\ cmp.left = number(Fin(5))
    /\ cmp.right = number(NaN)
    /\ NumericComparison
    /\ ~cmp.result
    /\ RowsOfExpr # {}

\* C13: when neither operand is a NodeSet, each of <, <=, >, >= compares
\* the two operands converted to Number, also when both are Strings:
\* "31" > "5" and "31" >= "5" are true, "31" < "5" and "31" <= "5" are
\* false; an operand that is a String and no number makes all four false;
\* and the outcome is the one the tests expect.
C13_RelationalIsNumeric ==
    (cmp.done /\ cmp.op \in RelationalOps
     /\ "nodeset" \notin {cmp.left.t, cmp.right.t}) =>
        /\ cmp.result <=>
               RelateNumbers(cmp.op, toNumber(cmp.left), toNumber(cmp.right))
        /\ (cmp.left = string(<<"3", "1">>) /\ cmp.right = string(<<"5">>)) =>
               (cmp.result <=> cmp.op \in {">", ">="})
        /\ string(<<"H", "i">>) \in {cmp.left, cmp.right} => ~cmp.result
        /\ \A row \in RowsOfExpr : cmp.result = row.expected

C13_Witness ==
    /\ cmp.done
    /\ cmp.op = ">"
    /\ cmp.left = string(<<"3", "1">>)
    /\ cmp.right = string(<<"5">>)
    /\ cmp.result
    /\ RowsOfExpr # {}

\* the numbers an operand stands for in a comparison of numbers: those of
\* the string-values of its nodes, or the one it converts to
NumbersOf(v) ==
    IF v.t = "nodeset"
    THEN {StringToNumber(StringValue(a)) : a \in v.nodes}
    ELSE {toNumber(v)}

\* some node (pair of nodes) satisfies the operator, left against right
SomeNodeRelates(l, op, r) ==
    \E a \in NumbersOf(l), b \in NumbersOf(r) : RelateNumbers(op, a, b)

\* C14 (as stated): a relational comparison with a NodeSet operand holds
\* iff some node of the set (some pair of nodes, for two NodeSets) has a
\* string-value that, converted to Number, satisfies the operator, the
\* operands in their written order.
C14_RelationalIsExistential ==
    (cmp.done /\ cmp.op \in RelationalOps
     /\ "nodeset" \in {cmp.left.t, cmp.right.t}) =>
        (cmp.result <=> SomeNodeRelates(cmp.left, cmp.op, cmp.right))

\* C14 (amended): a relational comparison of a NodeSet with a NodeSet, a
\* Number or a String holds iff some node (pair of nodes) has a string-value
\* that, converted to Number, satisfies the operator, the operands in their
\* written order: 5 < {"31"} is true and 5 > {"31"} is false, {"0"} < {"2"}
\* is true and {"4"} < {"2"} is false; against a Boolean the NodeSet is
\* converted to Boolean and the two Booleans are compared; and the outcome is
\* the one the tests expect.
C14_RelationalIsExistentialButForBoolean ==
    (cmp.done /\ cmp.op \in RelationalOps
     /\ "nodeset" \in {cmp.left.t, cmp.right.t}) =>
        /\ "boolean" \notin {cmp.left.t, cmp.right.t} =>
               (cmp.result <=> SomeNodeRelates(cmp.left, cmp.op, cmp.right))
        /\ "boolean" \in {cmp.left.t, cmp.right.t} =>
               (cmp.result <=>
                    RelateNumbers(cmp.op,
                                  toNumber(boolean(toBoolean(cmp.left))),
                                  toNumber(boolean(toBoolean(cmp.right)))))
        /\ (cmp.left = number(Fin(5)) /\ cmp.right = nodeset({"NUM31"})) =>
               (cmp.result <=> cmp.op \in {"<", "<="})
        /\ (cmp.left = nodeset({"NUM0"}) /\ cmp.right = nodeset({"NUM2"})) =>
               (cmp.result <=> cmp.op \in {"<", "<="})
        /\ (cmp.left = nodeset({"NUM4"}) /\ cmp.right = nodeset({"NUM2"})) =>
               (cmp.result <=> cmp.op \in {">", ">="})
        /\ \A row \in RowsOfExpr : cmp.result = row.expected

C14_Witness ==
    /\ cmp.done
    /\ cmp.op = "<"
    /\ cmp.left = nodeset({"NUM0"})
    /\ cmp.right = nodeset({"NUM2"})
    /\ cmp.result
    /\ RowsOfExpr # {}

\* C15: the logical operators short-circuit: both evaluate their left
\* operand first; `and` evaluates its right operand only if (and whenever)
\* the left one converts to true, `or` only if the left one converts to
\* false; the result is the conjunction (the disjunction) of the two
\* operands converted to Boolean; and the outcome is the one the tests
\* expect for the four combinations of true and false.
C15_ShortCircuit ==
    (cmp.done /\ cmp.op \in {"and", "or"}) =>
        /\ cmp.evaluated \in {<<"left">>, <<"left", "right">>}
        /\ cmp.op = "and" =>
               /\ cmp.evaluated = <<"left", "right">> <=> toBoolean(cmp.left)
               /\ cmp.result <=> toBoolean(cmp.left) /\ toBoolean(cmp.right)
        /\ cmp.op = "or" =>
               /\ cmp.evaluated = <<"left", "right">> <=> ~toBoolean(cmp.left)
               /\ cmp.result <=> toBoolean(cmp.left) \/ toBoolean(cmp.right)
        /\ \A row \in RowsOfExpr : cmp.result = row.expected
        /\ \A l \in BOOLEAN, r \in BOOLEAN :
               \E row \in test_boolean_expr :
                   /\ row.op = cmp.op
                   /\ row.left = boolean(l)
                   /\ row.right = boolean(r)
                   /\ row.expected = IF cmp.op = "and" THEN l /\ r ELSE l \/ r

C15_Witness ==
    /\ cmp.done
    /\ cmp.op = "and"
    /\ cmp.left = boolean(FALSE)
    /\ cmp.right = boolean(TRUE)
    /\ cmp.evaluated = <<"left">>
    /\ ~cmp.result
    /\ RowsOfExpr # {}

(***************************************************************************)
(* copy_node and copy_nodes.  A node is a record of the attributes the     *)
(* code reads; the result of a copy is the callbacks made, in order, and   *)
(* the exception that ended it, if any.  A name the module neither defines *)
(* nor imports raises NameError where it is evaluated.                     *)
(***************************************************************************)
\* the names bound at the top level of amara/xpath/__init__.py
ModuleGlobals ==
    {"EXTENSION_NAMESPACE", "__all__", "Error", "XPathError", "types",
     "XML_NAMESPACE", "Node", "XPathNamespace", "writer", "treewriter",
     "stringwriter", "extensions", "parser", "context"}

XMLNS_NAMESPACE == "http://www.w3.org/2000/xmlns/"

\* the attributes of a node copy_node reads
NodeOf(nodeType, nodeName, namespaceURI, data, xpathAttributes, children) ==
    [nodeType |-> nodeType, nodeName |-> nodeName,
     namespaceURI |-> namespaceURI, data |-> data,
     xpathAttributes |-> xpathAttributes, children |-> children]

Leaf(nodeType, nodeName, namespaceURI, data) ==
    NodeOf(nodeType, nodeName, namespaceURI, data, <<>>, <<>>)

\* the outcome of a piece of code: its callbacks and how it ended
Done(events) == [events |-> events, err |-> "ok"]
Raise(err) == [events |-> <<>>, err |-> err]

\* first, and if it did not raise, then
Then(first, then) ==
    IF first.err # "ok" THEN first
    ELSE [events |-> first.events \o then.events, err |-> then.err]

\* self.o(args): the attribute lookup on the context, then the call
Forward(o, args) ==
    IF bound[o] = Missing THEN Raise("AttributeError")
    ELSE Done(<<[w |-> bound[o].self, m |-> bound[o].attr, args |-> args]>>)

\* for attr in node.xpathAttributes: self.attribute(...)
RECURSIVE CopyAttributes(_)
CopyAttributes(attrs) ==
    IF attrs = <<>> THEN Done(<<>>)
    ELSE Then(Forward("attribute", <<Head(attrs).nodeName, Head(attrs).data,
                                     Head(attrs).namespaceURI>>),
              CopyAttributes(Tail(attrs)))

\* a node of an unknown kind refused
pass_unsupported == Raise("TypeError")

\* else: pass
pass == Done(<<>>)

RECURSIVE copy_node(_)
RECURSIVE copy_nodes(_)
\* context.copy_nodes(nodes), and the loops over the children of a node
copy_nodes(nodes) ==
    IF nodes = <<>> THEN Done(<<>>)
    ELSE Then(copy_node(Head(nodes)), copy_nodes(Tail(nodes)))

\* context.copy_node(node)
copy_node(node) ==
    CASE node.nodeType = "DOCUMENT_NODE" -> copy_nodes(node.children)
      [] node.nodeType = "TEXT_NODE" ->
             Forward("characters", <<node.data, "xsltOutputEscaping">>)
      [] node.nodeType = "ELEMENT_NODE" ->
             IF "GetAllNs" \notin ModuleGlobals
             THEN \* the arguments of start_element are evaluated first
                  Raise("NameError")
             ELSE Then(Forward("start_element",
                               <<node.nodeName, node.namespaceURI, "GetAllNs">>),
                  Then(CopyAttributes(node.xpathAttributes),
                  Then(copy_nodes(node.children),
                       Forward("end_element",
                               <<node.nodeName, node.namespaceURI>>))))
      [] node.nodeType = "ATTRIBUTE_NODE" ->
             IF "XMLNS_NAMESPACE" \notin ModuleGlobals
             THEN Raise("NameError")
             ELSE IF node.namespaceURI # XMLNS_NAMESPACE
             THEN Forward("attribute",
                          <<node.nodeName, node.data, node.namespaceURI>>)
             ELSE Done(<<>>)
      [] node.nodeType = "COMMENT_NODE" -> Forward("comment", <<node.data>>)
      [] node.nodeType = "PROCESSING_INSTRUCTION_NODE" ->
             Forward("processing_instruction", <<node.nodeName, node.data>>)
      [] node.nodeType = "NAMESPACE_NODE" ->
             Forward("namespace", <<node.nodeName, node.data>>)
      [] OTHER -> pass

\* the nodes the model copies: one of each kind, one of a kind copy_node
\* does not know, and trees of elements
TextNode == Leaf("TEXT_NODE", "#text", "None", "x")
CommentNode == Leaf("COMMENT_NODE", "#comment", "None", "c")
PINode == Leaf("PROCESSING_INSTRUCTION_NODE", "target", "None", "d")
NamespaceNode == Leaf("NAMESPACE_NODE", "p", "None", "urn:p")
AttrPlain == Leaf("ATTRIBUTE_NODE", "a", "None", "1")
AttrQualified == Leaf("ATTRIBUTE_NODE", "p:b", "urn:p", "2")
AttrXmlns == Leaf("ATTRIBUTE_NODE", "xmlns:p", XMLNS_NAMESPACE, "urn:p")
EntityNode == Leaf("ENTITY_NODE", "ent", "None", "")
EmptyElement == NodeOf("ELEMENT_NODE", "br", "None", "", <<>>, <<>>)
Element ==
    NodeOf("ELEMENT_NODE", "p:e", "urn:p", "", <<AttrPlain, AttrQualified>>,
           <<TextNode, EmptyElement, CommentNode>>)
Document ==
    NodeOf("DOCUMENT_NODE", "#document", "None", "", <<>>,
           <<PINode, Element, CommentNode>>)
Prolog ==
    NodeOf("DOCUMENT_NODE", "#document", "None", "", <<>>,
           <<PINode, CommentNode>>)

Nodes ==
    {TextNode, CommentNode, PINode, NamespaceNode, AttrPlain, AttrQualified,
     AttrXmlns, EntityNode, EmptyElement, Element, Document, Prolog}

NodeSeqs ==
    {<<>>, <<CommentNode, PINode>>,
     <<TextNode, EntityNode, NamespaceNode>>, <<CommentNode, Element, PINode>>,
     <<AttrPlain, AttrXmlns>>}

\* the known kinds
KnownKinds ==
    {"DOCUMENT_NODE", "TEXT_NODE", "ELEMENT_NODE", "ATTRIBUTE_NODE",
     "COMMENT_NODE", "PROCESSING_INSTRUCTION_NODE", "NAMESPACE_NODE"}

CopyNode ==
    \E node \in Nodes :
        /\ last' = [op |-> "copy_node", node |-> node,
                    err |-> copy_node(node).err,
                    events |-> copy_node(node).events]
        /\ UNCHANGED <<wrVars, ctxVars, cmp>>

CopyNodes ==
    \E nodes \in NodeSeqs :
        /\ last' = [op |-> "copy_nodes", nodes |-> nodes,
                    err |-> copy_nodes(nodes).err,
                    events |-> copy_nodes(nodes).events]
        /\ UNCHANGED <<wrVars, ctxVars, cmp>>

NextCopy ==
    \/ PushWriter
    \/ PushTreeWriter
    \/ PushStringWriter
    \/ PopWriter
    \/ CopyNode
    \/ CopyNodes

SpecCopy == InitW /\ [][NextCopy]_vars

(***************************************************************************)
(* Claims about copy_node and copy_nodes.                                  *)
(***************************************************************************)
\* the elements opened and not closed after the callbacks of events, or
\* <<"unbalanced">> if an end_element closes no element or another one
RECURSIVE OpenElements(_)
OpenElements(events) ==
    IF events = <<>> THEN <<>>
    ELSE LET before == OpenElements(SubSeq(events, 1, Len(events) - 1))
             e == events[Len(events)]
         IN  IF before = <<"unbalanced">> THEN before
             ELSE IF e.m = "start_element"
             THEN Append(before, <<e.args[1], e.args[2]>>)
             ELSE IF e.m = "end_element"
             THEN IF before # <<>> /\ before[Len(before)] = e.args
                  THEN SubSeq(before, 1, Len(before) - 1)
                  ELSE <<"unbalanced">>
             ELSE before

\* the concatenation of the callbacks of the copies of nodes, one by one
RECURSIVE EventsInOrder(_)
EventsInOrder(nodes) ==
    IF nodes = <<>> THEN <<>>
    ELSE copy_node(Head(nodes)).events \o EventsInOrder(Tail(nodes))

\* C16: with a writer pushed, copy_node of an element makes, in this order,
\* one start_element callback for the element, one attribute callback per
\* attribute, the callbacks of each child in child order, and one
\* end_element callback with the same name and namespace URI; so the
\* start_element and end_element callbacks of any copy are nested and
\* balanced; and copy_nodes makes the callbacks of its nodes in sequence
\* order.
C16_ElementEvents ==
    /\ (last.op = "copy_node" /\ _writers # <<>>
        /\ last.node.nodeType = "ELEMENT_NODE") =>
           LET node == last.node
               n == Len(last.events)
               k == Len(node.xpathAttributes)
           IN  /\ last.err = "ok"
               /\ n >= k + 2
               /\ last.events[1].m = "start_element"
               /\ last.events[1].args[1] = node.nodeName
               /\ last.events[1].args[2] = node.namespaceURI
               /\ \A i \in 1..k :
                      /\ last.events[1 + i].m = "attribute"
                      /\ last.events[1 + i].args[1] =
                             node.xpathAttributes[i].nodeName
               /\ SubSeq(last.events, k + 2, n - 1) =
                      EventsInOrder(node.children)
               /\ last.events[n].m = "end_element"
               /\ last.events[n].args = <<node.nodeName, node.namespaceURI>>
    /\ (last.op \in {"copy_node", "copy_nodes"} /\ _writers # <<>>) =>
           OpenElements(last.events) = <<>>
    /\ (last.op = "copy_nodes" /\ _writers # <<>>) =>
           last.events = EventsInOrder(last.nodes)

\* the attribute callbacks among events that carry name, value, uri
AttributeCallbacks(events, name, value, uri) ==
    {i \in 1..Len(events) :
         events[i].m = "attribute" /\ events[i].args = <<name, value, uri>>}

\* C17: with a writer pushed, copy_node makes no attribute callback for an
\* attribute in the xmlns namespace, whether the attribute is copied itself
\* or reached through its owner element, and raises nothing for it; any
\* other attribute copied makes exactly one attribute callback, with its
\* name, value and namespace URI.
C17_XmlnsAttributesSkipped ==
    (last.op \in {"copy_node", "copy_nodes"} /\ _writers # <<>>) =>
        /\ \A i \in 1..Len(last.events) :
               last.events[i].m = "attribute" =>
                   last.events[i].args[3] # XMLNS_NAMESPACE
        /\ (last.op = "copy_node" /\ last.node.nodeType = "ATTRIBUTE_NODE") =>
               /\ last.err = "ok"
               /\ IF last.node.namespaceURI = XMLNS_NAMESPACE
                  THEN last.events = <<>>
                  ELSE /\ Len(last.events) = 1
                       /\ last.events[1].m = "attribute"
                       /\ last.events[1].args =
                              <<last.node.nodeName, last.node.data,
                                last.node.namespaceURI>>
        /\ (last.op = "copy_node" /\ last.node.nodeType = "ELEMENT_NODE") =>
               \A j \in 1..Len(last.node.xpathAttributes) :
                   LET attr == last.node.xpathAttributes[j]
                   IN  Cardinality(AttributeCallbacks(
                           last.events, attr.nodeName, attr.data,
                           attr.namespaceURI)) =
                           IF attr.namespaceURI = XMLNS_NAMESPACE THEN 0 ELSE 1

\* C18: copy_node of a node of a kind that is none of document, text,
\* element, attribute, comment, processing instruction or namespace is a
\* skip: it raises nothing, makes no callback, and leaves the stack of
\* writers, the bindings of the operations and the context as they were.
C18_UnknownKindSkipped ==
    [][ (last'.op = "copy_node" /\ last' # last
         /\ last'.node.nodeType \notin KnownKinds) =>
          /\ last'.err = "ok"
          /\ last'.events = <<>>
          /\ UNCHANGED <<_writers, bound, log, writerClass, heap, ctxs>>
      ]_vars

C18_Witness ==
    /\ last.op = "copy_node"
    /\ last.node = EntityNode
    /\ last.err = "ok"
    /\ last.events = <<>>
    /\ _writers # <<>>

(***************************************************************************)
(* Claims about the order of the steps of pop_writer and about the         *)
(* callbacks a writer receives once it is ended.                           *)
(***************************************************************************)
\* C19: pop_writer calls end_document on the top writer and then removes
\* it: when end_document is called the writer is still the top of the
\* stack, and if end_document raises the stack still contains the writer.
C19_EndThenRemove ==
    (last.op = "pop_writer" /\ last.events # <<>>) =>
        /\ last.stack # <<>>
        /\ last.stack[Len(last.stack)] = last.events[1].w
        /\ last.err = "end_document" =>
               \E i \in 1..Len(_writers) : _writers[i] = last.events[1].w

\* the last begin or end callback w received is an end
Ended(w) ==
    \E i \in 1..Len(log) :
        /\ log[i] = Event(w, "end_document")
        /\ \A j \in (i + 1)..Len(log) : log[j].w # w

\* C20: no writer receives a callback of a construction operation or of
\* copy_node once pop_writer has called its end_document; in particular,
\* with the last writer popped and the stack empty, nothing is forwarded to
\* the popped writer.
C20_NoCallbackAfterEnd ==
    last.op \in {"call", "copy_node", "copy_nodes"} =>
        \A i \in 1..Len(last.events) :
            last.events[i].w \in Writers => ~Ended(last.events[i].w)

(***************************************************************************)
(* copy and set: the caller saves the state of a context and restores it.  *)
(* A saved state is remembered with the context it was taken from and the  *)
(* node, position and size the context had then.                           *)
(***************************************************************************)
\* copy() returning position and size in the other order
copy_swapped(c) == <<ctxs[c].node, ctxs[c].size, ctxs[c].position>>

\* context.copy(): the value returned
copy(c) == <<ctxs[c].node, ctxs[c].position, ctxs[c].size>>

\* context.set(state): the unpacking of state precedes the assignments, and
\* raises ValueError unless state has three items
set(c, state) ==
    /\ IF Len(state) # 3
       THEN /\ last' = [op |-> "set", c |-> c, state |-> state,
                        err |-> "ValueError"]
            /\ UNCHANGED ctxs
       ELSE /\ ctxs' = [ctxs EXCEPT ![c].node = state[1],
                                    ![c].position = state[2],
                                    ![c].size = state[3]]
            /\ last' = [op |-> "set", c |-> c, state |-> state, err |-> "ok"]
    /\ UNCHANGED <<heap, saved, wrVars, cmp>>

\* the states a caller passes to set besides those it saved: states built
\* by hand, one of them too short
SetArgs == States \cup {<<NodeV(1), IntV(1)>>}

Copy ==
    \E c \in 1..Len(ctxs) :
        /\ Cardinality(saved) < MaxSaved
        /\ saved' = saved \cup {[c |-> c, state |-> copy(c),
                                 node |-> ctxs[c].node,
                                 position |-> ctxs[c].position,
                                 size |-> ctxs[c].size]}
        /\ last' = [op |-> "copy", c |-> c, err |-> "ok", ret |-> copy(c)]
        /\ UNCHANGED <<heap, ctxs, wrVars, cmp>>

Set ==
    \E c \in 1..Len(ctxs), state \in {e.state : e \in saved} \cup SetArgs :
        set(c, state)

\* context(node, position, size, variables={...})
ConstructWithVariables ==
    \E st \in States, vs \in {v \in VariableArgs : truthy(v)} :
        new(st[1], st[2], st[3], vs, None, <<>>, None)

NextSave == ConstructWithVariables \/ Copy \/ Set \/ PushStringWriter

SpecSave == Init /\ [][NextSave]_vars

(***************************************************************************)
(* Claims about copy and set.                                              *)
(***************************************************************************)
\* C21: copy and set save and restore the state of a context: copy returns
\* the node, position and size of the context and changes nothing; set
\* changes nothing but the node, position and size of its context (its
\* variables, namespaces and functions, the other contexts, the dicts and
\* the writer stack stay as they were); and whatever set calls were made
\* since, set with a state copy returned for this context makes its node,
\* position and size those it had when copy was called.
C21_SaveRestore ==
    [][ /\ last'.op = "copy" =>
              /\ last'.ret = <<ctxs[last'.c].node, ctxs[last'.c].position,
                               ctxs[last'.c].size>>
              /\ UNCHANGED <<heap, ctxs, wrVars>>
        /\ (last'.op = "set" /\ last'.err = "ok") =>
              /\ UNCHANGED <<heap, wrVars>>
              /\ Len(ctxs') = Len(ctxs)
              /\ \A d \in 1..Len(ctxs) : d # last'.c => ctxs'[d] = ctxs[d]
              /\ ctxs'[last'.c].variables = ctxs[last'.c].variables
              /\ ctxs'[last'.c].namespaces = ctxs[last'.c].namespaces
              /\ ctxs'[last'.c].functions = ctxs[last'.c].functions
              /\ \A e \in saved :
                     (e.c = last'.c /\ e.state = last'.state) =>
                         /\ ctxs'[e.c].node = e.node
                         /\ ctxs'[e.c].position = e.position
                         /\ ctxs'[e.c].size = e.size
      ]_vars

\* a context restored to the first of two different states saved for it
C21_Witness ==
    /\ last.op = "set"
    /\ last.err = "ok"
    /\ _writers # <<>>
    /\ DOMAIN variables(last.c) # {}
    /\ \E e \in saved, f \in saved :
           /\ e.c = last.c /\ f.c = last.c
           /\ e.state = last.state
           /\ f.state # e.state
           /\ ctxs[last.c].node = e.node
           /\ ctxs[last.c].position = e.position
           /\ ctxs[last.c].size = e.size
           /\ e.position # e.size

(***************************************************************************)
(* Claims about pop_writer with no writer on the stack.                    *)
(***************************************************************************)
\* C22: pop_writer on an empty stack of writers, before any push or after
\* every writer pushed was popped, raises an error (IndexError), calls
\* end_document on no writer, and leaves the stack, the bindings of the
\* operations of the context and the contexts as they were.
C22_PopOnEmptyStack ==
    [][ (last'.op = "pop_writer" /\ _writers = <<>>) =>
          /\ last'.err = "IndexError"
          /\ last'.events = <<>>
          /\ UNCHANGED <<_writers, bound, log, writerClass, ctxVars>>
      ]_vars

\* pop_writer failed on a stack emptied by earlier pops
C22_Witness ==
    /\ last.op = "pop_writer"
    /\ last.err = "IndexError"
    /\ _writers = <<>>
    /\ \E i \in 1..Len(log) : log[i].m = "end_document"
    /\ \E o \in Ops : bound[o].self \in Writers

====
